---- MODULE Spec2Model ----
(***************************************************************************)
(* dynamoDBWrapper: the promise-returning wrapper around the DynamoDB      *)
(* document client (src/dynamodbHelper.js, current revision, lines         *)
(* 239-585; lines 1-237 and src/unnamed/part_000 are earlier revisions of  *)
(* the same module).                                                       *)
(*                                                                         *)
(* A JavaScript value is a record [type, val]: a string is a sequence of   *)
(* text tokens, an array a sequence, a mapping a function from attribute   *)
(* names.  "x.length" is the length of a string or an array, undefined on  *)
(* a mapping, and a thrown TypeError on null and undefined.                *)
(*                                                                         *)
(* The store client (docClient) is the environment: one table "T" whose    *)
(* key attribute is keyAttr, with DynamoDB's item and condition semantics. *)
(***************************************************************************)
EXTENDS Integers, Sequences, FiniteSets, TLC

VARIABLES
    keyAttr,    \* the partition key attribute of table "T" (fixed by the table's schema)
    table,      \* the items of table "T": a function from the key values present to items
    calls,      \* per call slot: the call's arguments, request, response and outcome
    fields,     \* the updateParams given to the update-expression builder
    built,      \* the builder's result for fields
    scenario,   \* the put/get/put/get/delete/get scenario: its step, items and outcomes
    region,     \* AWS.config.region
    regionCall  \* the last setAWSRegion call: its argument, the region before it, whether it threw

vars == <<keyAttr, table, calls, fields, built, scenario, region, regionCall>>

----------------------------------------------------------------------------
(* Bounds *)

MaxKey == 2         \* key values are 1..MaxKey
MaxVal == 2         \* attribute values are 1..MaxVal
MaxFields == 3      \* updateParams hold 1..MaxFields fields

KeyVals == 1..MaxKey
Vals == 1..MaxVal

KeyAttrs == {"MachineID", "HashID"}
FieldNames == {"val", "ppm"}
TableT == <<"T">>

----------------------------------------------------------------------------
(* JavaScript values *)

JSString(toks) == [type |-> "string", val |-> toks]
JSArray(elems) == [type |-> "array", val |-> elems]
JSMapping(m) == [type |-> "mapping", val |-> m]
JSNull == [type |-> "null", val |-> <<>>]
JSUndefined == [type |-> "undefined", val |-> <<>>]

\* The empty and missing values an argument can be given.
Empties == {JSString(<<>>), JSArray(<<>>), JSMapping(<<>>), JSNull, JSUndefined}

\* x.length throws a TypeError
LengthThrows(x) == x.type \in {"null", "undefined"}
\* x.length is a number (it is undefined on a mapping)
HasLength(x) == x.type \in {"string", "array"}
\* x.length <= 0 : false when x.length is undefined
LengthLE0(x) == HasLength(x) /\ Len(x.val) <= 0
\* x.length > 0
LengthGT0(x) == HasLength(x) /\ Len(x.val) > 0
\* !x
Falsy(x) == x.type \in {"null", "undefined"} \/ (x.type = "string" /\ x.val = <<>>)

\* a default parameter value replaces undefined
Default(x, d) == IF x.type = "undefined" THEN d ELSE x

----------------------------------------------------------------------------
(* Promise outcomes.  resolve and reject settle a promise once: of the     *)
(* calls a callback makes, the first decides.                              *)

NoCode == "undefined"
NoArgs == [none |-> TRUE]
NoReq == [none |-> TRUE]
NoResp == [none |-> TRUE]
NoOutcome == [none |-> TRUE]

Resolved(data) ==
    [settled |-> "resolved", code |-> NoCode, msg |-> "", cause |-> {}, calledWith |-> {}, value |-> data]

Rejected(msg, code, cause, errorObj) ==
    [settled |-> "rejected", code |-> code, msg |-> msg, cause |-> cause, calledWith |-> {errorObj}, value |-> {}]

\* a throw inside the promise executor rejects the promise with the thrown TypeError
Thrown ==
    [settled |-> "rejected", code |-> NoCode, msg |-> "TypeError", cause |-> {}, calledWith |-> {}, value |-> {}]

SettleLast(attempts) == attempts[Len(attempts)]

Settle(attempts) == attempts[1]

----------------------------------------------------------------------------
(* The update-expression builder of updateItem *)

UpdateField(name, value) == [fieldName |-> name, fieldValue |-> value]

\* expressionAttributeValues[key] = value
Assign(m, key, value) == [k \in DOMAIN m \cup {key} |-> IF k = key THEN value ELSE m[k]]

\* earlier revision: paramIndex !== 0 compares a string index with a number
NoFirstParam(i) == FALSE

\* paramIndex === "0" : the first index of the for-in loop
IsFirstParam(i) == i = 1

\* ` ${fieldName} = :${fieldName}`
Clause(name) == <<" ">> \o name.val \o <<" = :">> \o name.val

\* `:${fieldName}`
Placeholder(name) == ":" \o name.val[1]

RECURSIVE BuildLoop(_, _, _, _)
BuildLoop(updateParams, i, updateExpression, expressionAttributeValues) ==
    IF i > Len(updateParams)
    THEN [rejected |-> FALSE, updateExpression |-> updateExpression,
          expressionAttributeValues |-> expressionAttributeValues]
    ELSE LET name == updateParams[i].fieldName
             expr == IF IsFirstParam(i) THEN updateExpression ELSE updateExpression \o <<",">>
         IN  IF name.type \in {"undefined", "null"}
             THEN [rejected |-> TRUE, updateExpression |-> expr,
                   expressionAttributeValues |-> expressionAttributeValues]
             ELSE BuildLoop(updateParams, i + 1, expr \o Clause(name),
                            Assign(expressionAttributeValues, Placeholder(name),
                                   updateParams[i].fieldValue))

BuildUpdateExpression(updateParams) == BuildLoop(updateParams, 1, <<"set">>, <<>>)

----------------------------------------------------------------------------
(* Condition expressions *)

\* putItem's condition names a fixed attribute (MachineID in every readable revision)
PutConditionAttr == "MachineID"

PutCondition == <<"attribute_not_exists(", PutConditionAttr, ")">>

requireItemExistsExpression == <<"attribute_exists(", "MachineID", ")">>

BuildConditionExpression(conditionExpression) ==
    IF LengthGT0(conditionExpression)
    THEN requireItemExistsExpression \o <<", ">> \o conditionExpression.val
    ELSE requireItemExistsExpression

----------------------------------------------------------------------------
(* The store behind docClient: table "T" with DynamoDB's semantics.  A     *)
(* request the service cannot accept (a parameter of the wrong type, a key *)
(* or item that does not match the table's key schema, an expression       *)
(* outside the expression grammar, attribute values that are empty or      *)
(* unused) is answered with a ValidationException; a condition that is     *)
(* false with a ConditionalCheckFailedException.                           *)

Failed(code, tbl) == [err |-> code, data |-> {}, table |-> tbl]
Succeeded(d, tbl) == [err |-> "none", data |-> {d}, table |-> tbl]

ValidTable(tableName) == tableName = JSString(TableT)
ValidKey(key) == key.type = "mapping" /\ DOMAIN key.val = {keyAttr}
ValidItem(item) == item.type = "mapping" /\ keyAttr \in DOMAIN item.val

\* the item stored under key value k: a set of at most one item
Existing(tbl, k) == IF k \in DOMAIN tbl THEN {tbl[k]} ELSE {}

\* The condition grammar has functions and comparisons (joined by AND, OR, NOT); it has no comma.
CondForm(cond) ==
    IF Len(cond) # 3 THEN "invalid"
    ELSE IF cond[1] = "attribute_exists(" /\ cond[3] = ")" THEN "exists"
    ELSE IF cond[1] = "attribute_not_exists(" /\ cond[3] = ")" THEN "not_exists"
    ELSE IF cond[2] = " = " THEN "equals"
    ELSE "invalid"

CondPlaceholders(cond) == IF CondForm(cond) = "equals" THEN {cond[3]} ELSE {}

CondHolds(cond, existing, values) ==
    CASE CondForm(cond) = "exists" -> \E it \in existing : cond[2] \in DOMAIN it
      [] CondForm(cond) = "not_exists" -> \A it \in existing : cond[2] \notin DOMAIN it
      [] CondForm(cond) = "equals" ->
            \E it \in existing : cond[1] \in DOMAIN it /\ it[cond[1]] = values[cond[3]]
      [] OTHER -> FALSE

\* the attribute names of "set n = :n, m = :m"; <<>> when the text is no set expression
RECURSIVE SetNames(_, _)
SetNames(expr, i) ==
    IF i + 3 > Len(expr) THEN <<>>
    ELSE IF expr[i] # " " \/ expr[i + 2] # " = :" \/ expr[i + 1] # expr[i + 3] THEN <<>>
    ELSE IF i + 3 = Len(expr) THEN <<expr[i + 1]>>
    ELSE IF expr[i + 4] # "," THEN <<>>
    ELSE LET rest == SetNames(expr, i + 5)
         IN  IF rest = <<>> THEN <<>> ELSE <<expr[i + 1]>> \o rest

UpdateNames(expr) == IF Len(expr) >= 1 /\ expr[1] = "set" THEN SetNames(expr, 2) ELSE <<>>

Range(seq) == {seq[i] : i \in DOMAIN seq}

\* ExpressionAttributeValues must be a non-empty mapping of exactly the placeholders used
ValidValues(values, used) ==
    values.type = "mapping" /\ DOMAIN values.val # {} /\ DOMAIN values.val = used

RECURSIVE ApplySet(_, _, _, _)
ApplySet(item, names, values, i) ==
    IF i > Len(names) THEN item
    ELSE ApplySet(Assign(item, names[i], values[":" \o names[i]]), names, values, i + 1)

StorePut(req, tbl) ==
    IF ~ValidTable(req.TableName) \/ ~ValidItem(req.Item) THEN Failed("ValidationException", tbl)
    ELSE LET k == req.Item.val[keyAttr]
             written == Succeeded(<<>>, Assign(tbl, k, req.Item.val))
         IN  IF "ConditionExpression" \notin DOMAIN req THEN written
             ELSE IF CondForm(req.ConditionExpression) = "invalid"
                     \/ CondPlaceholders(req.ConditionExpression) # {}
                  THEN Failed("ValidationException", tbl)
             ELSE IF ~CondHolds(req.ConditionExpression, Existing(tbl, k), <<>>)
                  THEN Failed("ConditionalCheckFailedException", tbl)
             ELSE written

StoreUpdate(req, tbl) ==
    LET names == UpdateNames(req.UpdateExpression)
        cond == req.ConditionExpression
    IN  IF ~ValidTable(req.TableName) \/ ~ValidKey(req.Key) THEN Failed("ValidationException", tbl)
        ELSE IF names = <<>> \/ Cardinality(Range(names)) # Len(names) \/ keyAttr \in Range(names)
             THEN Failed("ValidationException", tbl)
        ELSE IF CondForm(cond) = "invalid"
                \/ ~ValidValues(JSMapping(req.ExpressionAttributeValues),
                                {":" \o n : n \in Range(names)} \cup CondPlaceholders(cond))
             THEN Failed("ValidationException", tbl)
        ELSE LET k == req.Key.val[keyAttr]
             IN  IF ~CondHolds(cond, Existing(tbl, k), req.ExpressionAttributeValues)
                 THEN Failed("ConditionalCheckFailedException", tbl)
                 ELSE Succeeded(<<>>,
                        Assign(tbl, k,
                               ApplySet(IF k \in DOMAIN tbl THEN tbl[k] ELSE req.Key.val,
                                        names, req.ExpressionAttributeValues, 1)))

StoreDelete(req, tbl) ==
    LET cond == req.ConditionExpression
    IN  IF ~ValidTable(req.TableName) \/ ~ValidKey(req.Key) THEN Failed("ValidationException", tbl)
        ELSE IF cond.type # "string" \/ CondForm(cond.val) = "invalid"
                \/ ~ValidValues(req.ExpressionAttributeValues, CondPlaceholders(cond.val))
             THEN Failed("ValidationException", tbl)
        ELSE LET k == req.Key.val[keyAttr]
             IN  IF ~CondHolds(cond.val, Existing(tbl, k), req.ExpressionAttributeValues.val)
                 THEN Failed("ConditionalCheckFailedException", tbl)
                 ELSE Succeeded(<<>>, [x \in DOMAIN tbl \ {k} |-> tbl[x]])

\* a get of an absent key answers {} : a response without Item
StoreGet(req, tbl) ==
    IF ~ValidTable(req.TableName) \/ ~ValidKey(req.Key) THEN Failed("ValidationException", tbl)
    ELSE LET k == req.Key.val[keyAttr]
         IN  IF k \in DOMAIN tbl THEN Succeeded([Item |-> tbl[k]], tbl) ELSE Succeeded(<<>>, tbl)

\* a query on the key attribute answers the items with that key value
StoreQuery(req, tbl) ==
    LET cond == req.KeyConditionExpression
        names == req.ExpressionAttributeNames
        values == req.ExpressionAttributeValues
    IN  IF ~ValidTable(req.TableName) \/ "IndexName" \in DOMAIN req
        THEN Failed("ValidationException", tbl)
        ELSE IF cond.type # "string" \/ CondForm(cond.val) # "equals" \/ names.type # "mapping"
                \/ ~ValidValues(values, CondPlaceholders(cond.val))
             THEN Failed("ValidationException", tbl)
        ELSE IF DOMAIN names.val # {cond.val[1]} \/ names.val[cond.val[1]] # keyAttr
             THEN Failed("ValidationException", tbl)
        ELSE LET k == values.val[cond.val[3]]
             IN  Succeeded([Items |-> IF k \in DOMAIN tbl THEN <<tbl[k]>> ELSE <<>>], tbl)

----------------------------------------------------------------------------
(* The exported operations: the promise executor up to the docClient call *)

Idle ==
    [st |-> "idle", op |-> "none", args |-> NoArgs, req |-> NoReq, invoked |-> 0,
     resp |-> NoResp, before |-> {}, out |-> NoOutcome]

\* errorObj.calledWith: the arguments a rejection carries; query's leaves indexName out
CalledWith(op, args) ==
    IF op = "query" THEN [k \in DOMAIN args \ {"indexName"} |-> args[k]] ELSE args

\* the executor settled the promise without calling docClient
SettledEarly(op, args, outcome) ==
    [st |-> "settled", op |-> op, args |-> args, req |-> NoReq, invoked |-> 0,
     resp |-> NoResp, before |-> {}, out |-> outcome]

\* the executor called docClient with requestParams
Requested(op, args, requestParams) ==
    [st |-> "pending", op |-> op, args |-> args, req |-> requestParams, invoked |-> 1,
     resp |-> NoResp, before |-> {}, out |-> NoOutcome]

putItem(item, tableName, overwriteArg) ==
    LET overwrite == IF overwriteArg = "undefined" THEN "false" ELSE overwriteArg
        args == [item |-> item, TableName |-> tableName, overwrite |-> overwrite]
    IN  IF LengthThrows(item) THEN SettledEarly("put", args, Thrown)
        ELSE IF LengthLE0(item)
             THEN SettledEarly("put", args, Rejected("No item supplied", NoCode, {}, args))
        ELSE IF LengthThrows(tableName) THEN SettledEarly("put", args, Thrown)
        ELSE IF LengthLE0(tableName)
             THEN SettledEarly("put", args, Rejected("No tableName supplied", NoCode, {}, args))
        ELSE IF overwrite # "true"
             THEN Requested("put", args, [TableName |-> tableName, Item |-> item,
                                          ConditionExpression |-> PutCondition])
             ELSE Requested("put", args, [TableName |-> tableName, Item |-> item])

updateItem(itemKey, tableName, updateParams, conditionArg) ==
    LET conditionExpression == Default(conditionArg, JSString(<<>>))
        args == [updateParams |-> updateParams, tableName |-> tableName, itemKey |-> itemKey,
                 conditionExpression |-> conditionExpression]
        b == BuildUpdateExpression(updateParams.val)
    IN  IF Falsy(itemKey) \/ LengthLE0(itemKey)
        THEN SettledEarly("update", args, Rejected("no Item Key supplied", NoCode, {}, args))
        ELSE IF Falsy(updateParams) \/ LengthLE0(updateParams)
             THEN SettledEarly("update", args, Rejected("No updateParams supplied", NoCode, {}, args))
        ELSE IF Falsy(tableName) \/ LengthLE0(tableName)
             THEN SettledEarly("update", args, Rejected("No tableName supplied", NoCode, {}, args))
        ELSE IF b.rejected
             THEN SettledEarly("update", args,
                    Rejected("Update failed on dynamoDB", "InvalidData",
                             {"Passed parameters where undefined"}, args))
        ELSE IF LengthThrows(conditionExpression) THEN SettledEarly("update", args, Thrown)
        ELSE Requested("update", args,
                [Key |-> itemKey, TableName |-> tableName,
                 ExpressionAttributeValues |-> b.expressionAttributeValues,
                 UpdateExpression |-> b.updateExpression,
                 ConditionExpression |-> BuildConditionExpression(conditionExpression)])

deleteItem(itemKey, tableName, deleteCondition, deleteParameters) ==
    LET args == [itemKey |-> itemKey, tableName |-> tableName,
                 deleteCondition |-> deleteCondition, deleteParameters |-> deleteParameters]
    IN  IF LengthThrows(itemKey) THEN SettledEarly("delete", args, Thrown)
        ELSE IF LengthLE0(itemKey)
             THEN SettledEarly("delete", args, Rejected("no Item Key supplied", NoCode, {}, args))
        ELSE IF LengthThrows(tableName) THEN SettledEarly("delete", args, Thrown)
        ELSE IF LengthLE0(tableName)
             THEN SettledEarly("delete", args, Rejected("No tableName supplied", NoCode, {}, args))
        ELSE IF LengthThrows(deleteCondition) THEN SettledEarly("delete", args, Thrown)
        ELSE IF LengthLE0(deleteCondition)
             THEN SettledEarly("delete", args, Rejected("No delete condition supplied", NoCode, {}, args))
        ELSE IF LengthThrows(deleteParameters) THEN SettledEarly("delete", args, Thrown)
        ELSE IF LengthLE0(deleteParameters)
             THEN SettledEarly("delete", args, Rejected("No delete condition supplied", NoCode, {}, args))
        ELSE Requested("delete", args,
                [Key |-> itemKey, TableName |-> tableName, ConditionExpression |-> deleteCondition,
                 ExpressionAttributeValues |-> deleteParameters])

getItem(itemKey, tableName) ==
    LET args == [itemKey |-> itemKey, tableName |-> tableName]
    IN  IF LengthThrows(itemKey) THEN SettledEarly("get", args, Thrown)
        ELSE IF LengthLE0(itemKey)
             THEN SettledEarly("get", args, Rejected("no Item Key supplied", NoCode, {}, args))
        ELSE IF LengthThrows(tableName) THEN SettledEarly("get", args, Thrown)
        ELSE IF LengthLE0(tableName)
             THEN SettledEarly("get", args, Rejected("No tableName supplied", NoCode, {}, args))
        ELSE Requested("get", args, [Key |-> itemKey, TableName |-> tableName])

\* the earlier revision's test: indexName.length >= 0
IndexSuppliedGE0(indexName) == HasLength(indexName) /\ Len(indexName.val) >= 0

\* indexName.length > 0
IndexSupplied(indexName) == LengthGT0(indexName)

query(conditionExpression, expressionAttributeNames, expressionAttributeValues, tableName, indexArg) ==
    LET indexName == Default(indexArg, JSString(<<>>))
        given == [conditionExpression |-> conditionExpression, tableName |-> tableName,
                  expressionAttributeNames |-> expressionAttributeNames,
                  expressionAttributeValues |-> expressionAttributeValues,
                  indexName |-> indexArg]
        args == CalledWith("query", given)
        requestParams == [TableName |-> tableName, KeyConditionExpression |-> conditionExpression,
                          ExpressionAttributeNames |-> expressionAttributeNames,
                          ExpressionAttributeValues |-> expressionAttributeValues]
    IN  IF LengthThrows(conditionExpression) THEN SettledEarly("query", given, Thrown)
        ELSE IF LengthLE0(conditionExpression)
             THEN SettledEarly("query", given, Rejected("No conditionExpression supplied", NoCode, {}, args))
        ELSE IF LengthThrows(tableName) THEN SettledEarly("query", given, Thrown)
        ELSE IF LengthLE0(tableName)
             THEN SettledEarly("query", given, Rejected("No tableName supplied", NoCode, {}, args))
        ELSE IF LengthThrows(expressionAttributeNames) THEN SettledEarly("query", given, Thrown)
        ELSE IF LengthLE0(expressionAttributeNames)
             THEN SettledEarly("query", given,
                    Rejected("No expressionAttributeNames supplied", NoCode, {}, args))
        ELSE IF LengthThrows(expressionAttributeValues) THEN SettledEarly("query", given, Thrown)
        ELSE IF LengthLE0(expressionAttributeValues)
             THEN SettledEarly("query", given,
                    Rejected("No expressionAttributeValues supplied", NoCode, {}, args))
        ELSE IF LengthThrows(indexName) THEN SettledEarly("query", given, Thrown)
        ELSE IF IndexSupplied(indexName)
             THEN Requested("query", given, requestParams @@ [IndexName |-> indexName])
             ELSE Requested("query", given, requestParams)

\* reject({msg: "Not implemented"}) : neither code nor calledWith
scan ==
    SettledEarly("scan", <<>>,
        [settled |-> "rejected", code |-> NoCode, msg |-> "Not implemented", cause |-> {},
         calledWith |-> {}, value |-> {}])

----------------------------------------------------------------------------
(* The region configuration *)

defaultRegion == JSString(<<"eu-west-1">>)

NoRegionCall == [none |-> TRUE]

\* regionName.length >= 0 : true of every string and array, the empty ones included
RegionSupplied(regionName) == HasLength(regionName) /\ Len(regionName.val) >= 0

\* the region after setAWSRegion(regionName), and whether the call threw a TypeError
setAWSRegion(regionName, current) ==
    IF LengthThrows(regionName) THEN [region |-> current, threw |-> TRUE]
    ELSE IF RegionSupplied(regionName) THEN [region |-> regionName, threw |-> FALSE]
    ELSE [region |-> current, threw |-> FALSE]

----------------------------------------------------------------------------
(* The callbacks given to docClient: the resolve and reject calls a        *)
(* callback makes, in order                                                *)

putCallback(err, res, errorObj) ==
    IF err # "none"
    THEN (IF err = "ConditionalCheckFailedException"
          THEN <<Rejected("Item with that key already exists", "ItemExists", {}, errorObj)>>
          ELSE <<>>)
         \o <<Rejected("Put failed on dynamoDB", "DBError", {err}, errorObj), Resolved(res)>>
    ELSE <<Resolved(res)>>

\* earlier revision: every store error of an update is a DBError
updateCallbackPlain(err, data, errorObj) ==
    IF err # "none"
    THEN <<Rejected("Update failed on dynamoDB", "DBError", {err}, errorObj)>>
    ELSE <<Resolved(data)>>

updateCallback(err, data, errorObj) ==
    IF err # "none"
    THEN IF err = "ConditionalCheckFailedException"
         THEN <<Rejected("Conditional Check Failed, Item possibly does not exist?",
                         "DBError.ConditionalCheckFailedException", {err}, errorObj)>>
         ELSE <<Rejected("Update failed on dynamoDB", "DBError", {err}, errorObj)>>
    ELSE <<Resolved(data)>>

deleteCallback(err, data, errorObj) ==
    IF err # "none"
    THEN <<Rejected("Delete failed on dynamoDB", "DBError", {err}, errorObj)>>
    ELSE <<Resolved(data)>>

\* a get that rejects when the response holds no item
getCallbackStrict(err, data, errorObj) ==
    IF err # "none" \/ \E d \in data : "Item" \notin DOMAIN d
    THEN <<Rejected("Get failed on dynamoDB", "DBError", {err}, errorObj)>>
    ELSE <<Resolved(data)>>

getCallback(err, data, errorObj) ==
    IF err # "none"
    THEN <<Rejected("Get failed on dynamoDB", "DBError", {err}, errorObj)>>
    ELSE <<Resolved(data)>>

queryCallback(err, data, errorObj) ==
    IF err # "none"
    THEN <<Rejected("Query failed on dynamoDB", "DBError", {err}, errorObj)>>
    ELSE <<Resolved(data)>>

----------------------------------------------------------------------------
(* The arguments callers give *)

\* the promises that can be pending at a time
Slots == {1, 2}

\* a caller that awaits each call before the next uses one of them
Callers == {1}

ItemArgs == {JSMapping((keyAttr :> k) @@ ("val" :> v)) : k \in KeyVals, v \in Vals} \cup Empties
KeyArgs == {JSMapping(keyAttr :> k) : k \in KeyVals} \cup Empties
TableArgs == {JSString(TableT)} \cup Empties
OverwriteArgs == {"true", "false", "undefined"}

Field(n, v) == UpdateField(JSString(<<n>>), v)

UpdateParamsArgs ==
    {JSArray(<<Field("val", v)>>) : v \in Vals}
    \cup {JSArray(<<Field("ppm", 1)>>),
          JSArray(<<Field("val", MaxVal), Field("ppm", 1)>>),
          JSArray(<<Field("val", 1), Field("val", MaxVal)>>),
          JSArray(<<UpdateField(JSUndefined, 1)>>),
          JSArray(<<Field("val", 1), UpdateField(JSNull, 1)>>)}
    \cup Empties

ConditionArgs == {JSString(<<"attribute_exists(", "val", ")">>)} \cup Empties

DeleteConditionArgs ==
    {JSString(<<"attribute_exists(", keyAttr, ")">>), JSString(<<"val", " = ", ":v">>)} \cup Empties
DeleteParameterArgs == {JSMapping(":v" :> v) : v \in Vals} \cup Empties

QueryConditionArgs == {JSString(<<"#k", " = ", ":k">>)} \cup Empties
QueryNameArgs == {JSMapping("#k" :> keyAttr)} \cup Empties
QueryValueArgs == {JSMapping(":k" :> k) : k \in KeyVals} \cup Empties
IndexArgs == {JSUndefined, JSNull, JSString(<<>>), JSString(<<"byVal">>)}

\* how many of the arguments are empty or missing
NumEmpty(arguments) == Cardinality({i \in DOMAIN arguments : arguments[i] \in Empties})

MaxEmpty == 1       \* update, delete and query calls have at most MaxEmpty empty arguments

----------------------------------------------------------------------------
(* Actions *)

Free(c) == calls[c].st = "idle"

PutItem(c) ==
    /\ Free(c)
    /\ \E item \in ItemArgs, tableName \in TableArgs, overwrite \in OverwriteArgs :
          calls' = [calls EXCEPT ![c] = putItem(item, tableName, overwrite)]
    /\ UNCHANGED <<keyAttr, table, fields, built, scenario, region, regionCall>>

UpdateItem(c) ==
    /\ Free(c)
    /\ \E itemKey \in KeyArgs, tableName \in TableArgs, updateParams \in UpdateParamsArgs,
          conditionExpression \in ConditionArgs :
          /\ NumEmpty(<<itemKey, tableName, updateParams, conditionExpression>>) <= MaxEmpty
          /\ calls' = [calls EXCEPT ![c] =
                          updateItem(itemKey, tableName, updateParams, conditionExpression)]
    /\ UNCHANGED <<keyAttr, table, fields, built, scenario, region, regionCall>>

DeleteItem(c) ==
    /\ Free(c)
    /\ \E itemKey \in KeyArgs, tableName \in TableArgs, deleteCondition \in DeleteConditionArgs,
          deleteParameters \in DeleteParameterArgs :
          /\ NumEmpty(<<itemKey, tableName, deleteCondition, deleteParameters>>) <= MaxEmpty
          /\ calls' = [calls EXCEPT ![c] =
                          deleteItem(itemKey, tableName, deleteCondition, deleteParameters)]
    /\ UNCHANGED <<keyAttr, table, fields, built, scenario, region, regionCall>>

GetItem(c) ==
    /\ Free(c)
    /\ \E itemKey \in KeyArgs, tableName \in TableArgs :
          calls' = [calls EXCEPT ![c] = getItem(itemKey, tableName)]
    /\ UNCHANGED <<keyAttr, table, fields, built, scenario, region, regionCall>>

Query(c) ==
    /\ Free(c)
    /\ \E conditionExpression \in QueryConditionArgs, names \in QueryNameArgs,
          values \in QueryValueArgs, tableName \in TableArgs, indexName \in IndexArgs :
          /\ NumEmpty(<<conditionExpression, names, values, tableName>>) <= MaxEmpty
          /\ calls' = [calls EXCEPT ![c] =
                          query(conditionExpression, names, values, tableName, indexName)]
    /\ UNCHANGED <<keyAttr, table, fields, built, scenario, region, regionCall>>

Scan(c) ==
    /\ Free(c)
    /\ calls' = [calls EXCEPT ![c] = scan]
    /\ UNCHANGED <<keyAttr, table, fields, built, scenario, region, regionCall>>

\* the store's answer to a request
StoreAnswer(op, req, tbl) ==
    CASE op = "put" -> StorePut(req, tbl)
      [] op = "update" -> StoreUpdate(req, tbl)
      [] op = "delete" -> StoreDelete(req, tbl)
      [] op = "get" -> StoreGet(req, tbl)
      [] op = "query" -> StoreQuery(req, tbl)

\* the key value a request addresses: a set of at most one
RequestKey(op, req) ==
    CASE ~ValidTable(req.TableName) -> {}
      [] op = "put" -> IF ValidItem(req.Item) THEN {req.Item.val[keyAttr]} ELSE {}
      [] op \in {"update", "delete", "get"} -> IF ValidKey(req.Key) THEN {req.Key.val[keyAttr]} ELSE {}
      [] OTHER -> {}

\* the items stored under the key a request addresses
StoredUnder(op, req, tbl) == {tbl[k] : k \in RequestKey(op, req) \cap DOMAIN tbl}

\* docClient serves a pending request, or fails to reach the store; before keeps
\* what the table held under the request's key at that moment
StoreResponds(c) ==
    /\ calls[c].st = "pending"
    /\ \E fault \in BOOLEAN :
          LET r == IF fault THEN Failed("NetworkingError", table)
                   ELSE StoreAnswer(calls[c].op, calls[c].req, table)
          IN  /\ table' = r.table
              /\ calls' = [calls EXCEPT ![c] =
                              [@ EXCEPT !.st = "responded",
                                        !.resp = [err |-> r.err, data |-> r.data],
                                        !.before = StoredUnder(calls[c].op, calls[c].req, table)]]
    /\ UNCHANGED <<keyAttr, fields, built, scenario, region, regionCall>>

Attempts(op, err, data, errorObj) ==
    CASE op = "put" -> putCallback(err, data, errorObj)
      [] op = "update" -> updateCallback(err, data, errorObj)
      [] op = "delete" -> deleteCallback(err, data, errorObj)
      [] op = "get" -> getCallback(err, data, errorObj)
      [] op = "query" -> queryCallback(err, data, errorObj)

\* were errorObj a variable of the module, a callback would read the one written last
LastScope(c) == CHOOSE d \in Slots : calls[d].st # "idle" /\ \A e \in Slots : calls[e].st # "idle" => e <= d

\* errorObj is a constant of the executor's scope: the callback of call c reads call c's
Scope(c) == c

\* docClient calls the callback back, which settles the promise
Callback(c) ==
    /\ calls[c].st = "responded"
    /\ calls' = [calls EXCEPT ![c] =
                    [@ EXCEPT !.st = "settled",
                              !.out = Settle(Attempts(calls[c].op, calls[c].resp.err,
                                                      calls[c].resp.data,
                                                      CalledWith(calls[Scope(c)].op,
                                                                 calls[Scope(c)].args)))]]
    /\ UNCHANGED <<keyAttr, table, fields, built, scenario, region, regionCall>>

\* the caller's then/catch handler has run with the outcome; the call is over
Handled(c) ==
    /\ calls[c].st = "settled"
    /\ calls' = [calls EXCEPT ![c] = Idle]
    /\ UNCHANGED <<keyAttr, table, fields, built, scenario, region, regionCall>>

NotBuilt == [none |-> TRUE]
NoScenario == [none |-> TRUE]

Init ==
    /\ keyAttr \in KeyAttrs
    /\ table = <<>>
    /\ calls = [c \in Slots |-> Idle]
    /\ fields = <<>>
    /\ built = NotBuilt
    /\ scenario = NoScenario
    /\ region = defaultRegion
    /\ regionCall = NoRegionCall

Next ==
    \E c \in Callers :
        \/ PutItem(c)
        \/ UpdateItem(c)
        \/ DeleteItem(c)
        \/ GetItem(c)
        \/ Query(c)
        \/ Scan(c)
        \/ StoreResponds(c)
        \/ Callback(c)
        \/ Handled(c)

Spec == Init /\ [][Next]_vars

\* docClient calls back once for every request it was given
FairSpec == Spec /\ \A c \in Callers : WF_vars(StoreResponds(c)) /\ WF_vars(Callback(c))

----------------------------------------------------------------------------
(* The update-expression builder on its own: every sequence of up to       *)
(* MaxFields fields, built once                                            *)

FieldSet ==
    {Field(n, v) : n \in FieldNames, v \in Vals}
    \cup {UpdateField(JSUndefined, 1), UpdateField(JSNull, 1)}

FieldSeqs == UNION {[1..n -> FieldSet] : n \in 1..MaxFields}

Build ==
    /\ built = NotBuilt
    /\ built' = BuildUpdateExpression(fields)
    /\ UNCHANGED <<keyAttr, table, calls, fields, scenario, region, regionCall>>

BuilderInit ==
    /\ keyAttr = "MachineID"
    /\ table = <<>>
    /\ calls = [c \in Slots |-> Idle]
    /\ fields \in FieldSeqs
    /\ built = NotBuilt
    /\ scenario = NoScenario
    /\ region = defaultRegion
    /\ regionCall = NoRegionCall

BuilderNext == Build

BuilderSpec == BuilderInit /\ [][BuilderNext]_vars

----------------------------------------------------------------------------
(* The scenario: on a table without key k, put an item with key k, get k,  *)
(* put a second item with key k (default overwrite), get k, delete k on    *)
(* condition attribute_exists(<key attribute>) with {} as values, get k.   *)

PutItems == {(keyAttr :> k) @@ ("val" :> v) : k \in KeyVals, v \in Vals}

\* the tables that puts can build over the key values ks
TablesOver(ks) ==
    UNION {{t \in [present -> PutItems] : \A k \in present : t[k][keyAttr] = k} : present \in SUBSET ks}

ScenarioKey == JSMapping(keyAttr :> scenario.first[keyAttr])

ScenarioStep(step) ==
    CASE step = 1 -> putItem(JSMapping(scenario.first), JSString(TableT), "undefined")
      [] step = 3 -> putItem(JSMapping(scenario.second), JSString(TableT), "undefined")
      [] step = 5 -> deleteItem(ScenarioKey, JSString(TableT),
                                JSString(<<"attribute_exists(", keyAttr, ")">>), JSMapping(<<>>))
      [] OTHER -> getItem(ScenarioKey, JSString(TableT))

ScenarioCall(c) ==
    /\ Free(c)
    /\ scenario.step <= 6
    /\ calls' = [calls EXCEPT ![c] = ScenarioStep(scenario.step)]
    /\ UNCHANGED <<keyAttr, table, fields, built, scenario, region, regionCall>>

ScenarioHandled(c) ==
    /\ calls[c].st = "settled"
    /\ calls' = [calls EXCEPT ![c] = Idle]
    /\ scenario' = [scenario EXCEPT
                       !.step = @ + 1,
                       !.log = Append(@, [err |-> calls[c].resp.err, out |-> calls[c].out])]
    /\ UNCHANGED <<keyAttr, table, fields, built, region, regionCall>>

ScenarioInit ==
    /\ keyAttr \in KeyAttrs
    /\ calls = [c \in Slots |-> Idle]
    /\ fields = <<>>
    /\ built = NotBuilt
    /\ \E first \in PutItems, second \in PutItems :
          /\ first[keyAttr] = second[keyAttr]
          /\ scenario = [step |-> 1, first |-> first, second |-> second, log |-> <<>>]
          /\ table \in TablesOver(KeyVals \ {first[keyAttr]})
    /\ region = defaultRegion
    /\ regionCall = NoRegionCall

ScenarioNext ==
    \E c \in Callers :
        \/ ScenarioCall(c)
        \/ StoreResponds(c)
        \/ Callback(c)
        \/ ScenarioHandled(c)

ScenarioSpec == ScenarioInit /\ [][ScenarioNext]_vars

----------------------------------------------------------------------------
(* Calls in flight together, and the region configuration they share: every *)
(* promise slot takes calls on key 1 of table "T", docClient answers the   *)
(* pending requests in any order, and setAWSRegion runs in between.        *)

RegionArgs == {JSString(<<"us-east-1">>), JSString(<<>>), JSUndefined}

SetAWSRegion ==
    /\ \E regionName \in RegionArgs :
          LET r == setAWSRegion(regionName, region)
          IN  /\ region' = r.region
              /\ regionCall' = [regionName |-> regionName, before |-> region, threw |-> r.threw]
    /\ UNCHANGED <<keyAttr, table, calls, fields, built, scenario>>

ConcurrentKey == JSMapping(keyAttr :> 1)

ConcurrentCalls ==
    {putItem(JSMapping((keyAttr :> 1) @@ ("val" :> v)), JSString(TableT), "undefined") : v \in Vals}
    \cup {putItem(JSString(<<>>), JSString(TableT), "undefined"),
          updateItem(ConcurrentKey, JSString(TableT), JSArray(<<Field("val", 1)>>), JSUndefined),
          deleteItem(ConcurrentKey, JSString(TableT), JSString(<<"val", " = ", ":v">>),
                     JSMapping(":v" :> 1)),
          getItem(ConcurrentKey, JSString(TableT)),
          query(JSString(<<"#k", " = ", ":k">>), JSMapping("#k" :> keyAttr), JSMapping(":k" :> 1),
                JSString(TableT), JSUndefined),
          scan}

ConcurrentCall(c) ==
    /\ Free(c)
    /\ \E call \in ConcurrentCalls : calls' = [calls EXCEPT ![c] = call]
    /\ UNCHANGED <<keyAttr, table, fields, built, scenario, region, regionCall>>

ConcurrentInit == Init

ConcurrentNext ==
    \/ SetAWSRegion
    \/ \E c \in Slots :
          \/ ConcurrentCall(c)
          \/ StoreResponds(c)
          \/ Callback(c)
          \/ Handled(c)

ConcurrentSpec == ConcurrentInit /\ [][ConcurrentNext]_vars

----------------------------------------------------------------------------
(* Properties *)

\* the calls that reached docClient and have settled
SettledCalls(op) ==
    {c \in DOMAIN calls : calls[c].st = "settled" /\ calls[c].op = op /\ calls[c].invoked = 1}

\* the store was reached: docClient reported no networking failure
Reached(s) == s.resp.err # "NetworkingError"

\* some mandatory argument of the call is empty or missing
HasEmptyArgument(s) ==
    CASE s.op = "put" -> s.args.item \in Empties \/ s.args.TableName \in Empties
      [] s.op = "update" ->
            s.args.itemKey \in Empties \/ s.args.updateParams \in Empties
            \/ s.args.tableName \in Empties
      [] s.op = "delete" ->
            s.args.itemKey \in Empties \/ s.args.tableName \in Empties
            \/ s.args.deleteCondition \in Empties \/ s.args.deleteParameters \in Empties
      [] s.op = "get" -> s.args.itemKey \in Empties \/ s.args.tableName \in Empties
      [] s.op = "query" ->
            s.args.conditionExpression \in Empties \/ s.args.tableName \in Empties
            \/ s.args.expressionAttributeNames \in Empties
            \/ s.args.expressionAttributeValues \in Empties
      [] OTHER -> FALSE

(* C1: a putItem without overwrite on a key that is present in the table   *)
(* is rejected with code ItemExists and leaves the stored item as it was;  *)
(* with overwrite it resolves and the stored item becomes the given item.  *)
C1_PutOnExistingKey ==
    \A c \in SettledCalls("put") :
        LET s == calls[c]
        IN  (Reached(s) /\ ValidTable(s.args.TableName) /\ s.before # {}) =>
                IF s.args.overwrite = "false"
                THEN /\ s.out.settled = "rejected"
                     /\ s.out.code = "ItemExists"
                     /\ StoredUnder("put", s.req, table) = s.before
                ELSE /\ s.out.settled = "resolved"
                     /\ StoredUnder("put", s.req, table) = {s.args.item.val}

(* C2: an updateItem with a valid key that is not in the table, valid      *)
(* updateParams and any conditionExpression is rejected with code          *)
(* DBError.ConditionalCheckFailedException, and creates no item.           *)
C2_UpdateOnAbsentKey ==
    \A c \in SettledCalls("update") :
        LET s == calls[c]
            names == {s.args.updateParams.val[i].fieldName : i \in DOMAIN s.args.updateParams.val}
        IN  (/\ Reached(s)
             /\ ValidKey(s.args.itemKey) /\ ValidTable(s.args.tableName)
             /\ s.args.updateParams.type = "array"
             /\ Cardinality(names) = Len(s.args.updateParams.val)
             /\ s.before = {}) =>
                /\ s.out.settled = "rejected"
                /\ s.out.code = "DBError.ConditionalCheckFailedException"
                /\ StoredUnder("update", s.req, table) = {}

(* C3: a call of putItem, updateItem, deleteItem, getItem or query with an *)
(* empty or missing mandatory argument never invokes the store client.     *)
C3_NoStoreCallOnEmptyArgument ==
    \A c \in DOMAIN calls : HasEmptyArgument(calls[c]) => calls[c].invoked = 0

(* C4: a call rejected by argument validation is rejected with error code  *)
(* InvalidData and carries the caller's arguments.                         *)
C4_ValidationRejectsInvalidData ==
    \A c \in DOMAIN calls :
        LET s == calls[c]
        IN  (s.st = "settled" /\ s.invoked = 0 /\ HasEmptyArgument(s)) =>
                /\ s.out.settled = "rejected"
                /\ s.out.code = "InvalidData"
                /\ s.out.calledWith = {s.args}

(* C5: a getItem of a key that is not in the table, answered by the store, *)
(* resolves with a response that holds no item; it is never rejected.      *)
C5_GetAbsentResolves ==
    \A c \in SettledCalls("get") :
        LET s == calls[c]
        IN  (/\ Reached(s)
             /\ ValidKey(s.args.itemKey) /\ ValidTable(s.args.tableName)
             /\ s.before = {}) =>
                /\ s.out.settled = "resolved"
                /\ s.out.value # {}
                /\ \A d \in s.out.value : "Item" \notin DOMAIN d

\* a get of an absent key has resolved while the table holds another item
C5_Witness ==
    \E c \in SettledCalls("get") :
        /\ Reached(calls[c]) /\ ValidKey(calls[c].args.itemKey)
        /\ ValidTable(calls[c].args.tableName)
        /\ calls[c].before = {}
        /\ calls[c].out.settled = "resolved"
        /\ DOMAIN table # {}

C7_PutGetDeleteScenario ==
    LET log == scenario.log
        done(i) == i <= Len(log) /\ \A j \in 1..i : log[j].err # "NetworkingError"
        found == {[Item |-> scenario.first]}
    IN  scenario # NoScenario =>
            /\ done(1) => log[1].out.settled = "resolved"
            /\ done(2) => log[2].out.settled = "resolved" /\ log[2].out.value = found
            /\ done(3) => log[3].out.settled = "rejected" /\ log[3].out.code = "ItemExists"
            /\ done(4) => log[4].out.settled = "resolved" /\ log[4].out.value = found
            /\ done(5) => log[5].out.settled = "resolved"
            /\ done(6) => /\ log[6].out.settled = "resolved"
                          /\ \A d \in log[6].out.value : "Item" \notin DOMAIN d

(* C8: in every request updateItem passes to the store client, the         *)
(* ConditionExpression is the predicate that the key attribute exists,     *)
(* alone when the caller's condition is empty and followed by ", " and the *)
(* caller's condition otherwise.                                           *)
C8_ConditionKeepsBasePredicate ==
    \A c \in DOMAIN calls :
        LET s == calls[c]
            base == <<"attribute_exists(", keyAttr, ")">>
        IN  (s.op = "update" /\ s.invoked = 1) =>
                s.req.ConditionExpression =
                    IF LengthGT0(s.args.conditionExpression)
                    THEN base \o <<", ">> \o s.args.conditionExpression.val
                    ELSE base

(* C9: a putItem that reached the store client settles by the client's     *)
(* callback: rejected with ItemExists on ConditionalCheckFailedException,  *)
(* rejected with DBError carrying the error on any other error, resolved   *)
(* with the client's response only without error; the first reject or      *)
(* resolve of the callback decides.                                        *)
C9_PutOutcome ==
    \A c \in SettledCalls("put") :
        LET s == calls[c]
        IN  /\ s.resp.err = "ConditionalCheckFailedException" =>
                  s.out.settled = "rejected" /\ s.out.code = "ItemExists"
            /\ s.resp.err \notin {"none", "ConditionalCheckFailedException"} =>
                  /\ s.out.settled = "rejected" /\ s.out.code = "DBError"
                  /\ s.out.cause = {s.resp.err}
            /\ s.resp.err = "none" => s.out.settled = "resolved" /\ s.out.value = s.resp.data
            /\ s.out.settled = "resolved" => s.resp.err = "none"

\* a put was refused by the store's condition check and has settled
C9_Witness ==
    \E c \in SettledCalls("put") :
        /\ calls[c].resp.err = "ConditionalCheckFailedException"
        /\ calls[c].out.code = "ItemExists"

(* C10: an updateItem that reached the store client is rejected with       *)
(* DBError.ConditionalCheckFailedException on that client error and with   *)
(* DBError on any other, both carrying the error, and resolves with the    *)
(* client's response when there is no error.                               *)
C10_UpdateOutcome ==
    \A c \in SettledCalls("update") :
        LET s == calls[c]
        IN  /\ s.resp.err = "ConditionalCheckFailedException" =>
                  /\ s.out.settled = "rejected"
                  /\ s.out.code = "DBError.ConditionalCheckFailedException"
                  /\ s.out.cause = {s.resp.err}
            /\ s.resp.err \notin {"none", "ConditionalCheckFailedException"} =>
                  /\ s.out.settled = "rejected" /\ s.out.code = "DBError"
                  /\ s.out.cause = {s.resp.err}
            /\ s.resp.err = "none" => s.out.settled = "resolved" /\ s.out.value = s.resp.data

\* an update of a stored item was refused by the store's condition check and has settled
C10_Witness ==
    \E c \in SettledCalls("update") :
        /\ calls[c].resp.err = "ConditionalCheckFailedException"
        /\ calls[c].out.code = "DBError.ConditionalCheckFailedException"
        /\ calls[c].before # {}

\* the updateParams of the call hold a field whose fieldName is undefined or null
HasUndefinedFieldName(s) ==
    /\ s.op = "update"
    /\ s.args.updateParams.type = "array"
    /\ \E i \in DOMAIN s.args.updateParams.val :
          s.args.updateParams.val[i].fieldName.type \in {"undefined", "null"}

(* C11: an updateItem whose updateParams hold a field with an undefined or  *)
(* null fieldName, at any position, is rejected with code InvalidData and  *)
(* never invokes the store client's update.                                *)
C11_UndefinedFieldNameRejected ==
    \A c \in DOMAIN calls :
        LET s == calls[c]
        IN  HasUndefinedFieldName(s) =>
                /\ s.invoked = 0
                /\ s.st = "settled"
                /\ s.out.settled = "rejected"
                /\ s.out.code = "InvalidData"

(* C12: setAWSRegion with an empty region string leaves the configured     *)
(* region as it was before the call; with a non-empty string the           *)
(* configured region becomes that string.                                  *)
C12_EmptyRegionKeepsRegion ==
    regionCall # NoRegionCall =>
        /\ regionCall.regionName = JSString(<<>>) => region = regionCall.before
        /\ (regionCall.regionName.type = "string" /\ regionCall.regionName.val # <<>>) =>
              region = regionCall.regionName

(* C13: in every request query passes to the store client, IndexName is    *)
(* present exactly when the indexName argument is a non-empty string, and  *)
(* then equals the argument; with an empty or defaulted indexName the      *)
(* request has no IndexName.                                               *)
C13_IndexNameWhenSupplied ==
    \A c \in DOMAIN calls :
        LET s == calls[c]
        IN  (s.op = "query" /\ s.invoked = 1) =>
                IF s.args.indexName.type = "string" /\ s.args.indexName.val # <<>>
                THEN "IndexName" \in DOMAIN s.req /\ s.req.IndexName = s.args.indexName
                ELSE "IndexName" \notin DOMAIN s.req

\* a query with "" given as indexName has passed its request, without IndexName, to docClient
C13_Witness ==
    \E c \in DOMAIN calls :
        /\ calls[c].op = "query" /\ calls[c].invoked = 1
        /\ calls[c].args.indexName = JSString(<<>>)
        /\ "IndexName" \notin DOMAIN calls[c].req

(* C14: every call of scan is rejected as not implemented, with error kind *)
(* NotImplemented, and never invokes the store client.                     *)
C14_ScanNotImplemented ==
    \A c \in DOMAIN calls :
        LET s == calls[c]
        IN  s.op = "scan" =>
                /\ s.st = "settled"
                /\ s.invoked = 0
                /\ s.out.settled = "rejected"
                /\ s.out.code = "NotImplemented"

(* C15: every rejected outcome of putItem, updateItem, deleteItem, getItem, *)
(* query and scan carries the caller's arguments and an error code out of  *)
(* InvalidData, ItemExists, DBError, DBError.ConditionalCheckFailedException *)
(* and NotImplemented.                                                     *)
C15_RejectionsCarryCodeAndContext ==
    \A c \in DOMAIN calls :
        LET s == calls[c]
        IN  (s.st = "settled" /\ s.out.settled = "rejected") =>
                /\ s.out.code \in {"InvalidData", "ItemExists", "DBError",
                                   "DBError.ConditionalCheckFailedException", "NotImplemented"}
                /\ s.out.calledWith = {s.args}

(* C16: every call of putItem, updateItem, deleteItem, getItem or query    *)
(* invokes the store client at most once and settles either resolved or    *)
(* rejected with a classified error; a store error is never turned into a  *)
(* resolution.                                                             *)
C16_SettlesClassified ==
    \A c \in DOMAIN calls :
        LET s == calls[c]
        IN  s.op \in {"put", "update", "delete", "get", "query"} =>
                /\ s.invoked <= 1
                /\ s.st = "settled" =>
                      /\ s.out.settled \in {"resolved", "rejected"}
                      /\ s.out.settled = "rejected" =>
                            s.out.code \in {"InvalidData", "ItemExists", "DBError",
                                            "DBError.ConditionalCheckFailedException"}
                      /\ (s.invoked = 1 /\ s.resp.err # "none") => s.out.settled = "rejected"

\* with docClient calling back once per request, a call that was issued settles
C16_EventuallySettles ==
    \A c \in Callers : (calls[c].st \in {"pending", "responded"}) ~> (calls[c].st = "settled")

\* once settled, the outcome of a call stays as it is until the caller has handled it
C16_SettledOnce ==
    [][\A c \in DOMAIN calls :
          (calls[c].st = "settled" /\ calls'[c].st = "settled") => calls'[c].out = calls[c].out]_vars

\* the request of call s holds the arguments of call s
OwnRequest(s) ==
    CASE s.op = "put" -> s.req.TableName = s.args.TableName /\ s.req.Item = s.args.item
      [] s.op = "update" ->
            /\ s.req.TableName = s.args.tableName /\ s.req.Key = s.args.itemKey
            /\ \A p \in DOMAIN s.req.ExpressionAttributeValues :
                  \E i \in DOMAIN s.args.updateParams.val :
                      /\ p = Placeholder(s.args.updateParams.val[i].fieldName)
                      /\ s.req.ExpressionAttributeValues[p] = s.args.updateParams.val[i].fieldValue
      [] s.op = "delete" ->
            /\ s.req.TableName = s.args.tableName /\ s.req.Key = s.args.itemKey
            /\ s.req.ConditionExpression = s.args.deleteCondition
            /\ s.req.ExpressionAttributeValues = s.args.deleteParameters
      [] s.op = "get" -> s.req.TableName = s.args.tableName /\ s.req.Key = s.args.itemKey
      [] s.op = "query" ->
            /\ s.req.TableName = s.args.tableName
            /\ s.req.KeyConditionExpression = s.args.conditionExpression
            /\ s.req.ExpressionAttributeNames = s.args.expressionAttributeNames
            /\ s.req.ExpressionAttributeValues = s.args.expressionAttributeValues
      [] OTHER -> FALSE

\* the outcome of call s is that of the response to call s, with the context of call s
OwnOutcome(s) ==
    IF s.resp.err = "none"
    THEN s.out.settled = "resolved" /\ s.out.value = s.resp.data
    ELSE /\ s.out.settled = "rejected"
         /\ s.out.cause \subseteq {s.resp.err}
         /\ s.out.calledWith = {CalledWith(s.op, s.args)}

(* C17: with calls in flight together and callbacks delivered in any order, *)
(* each call's request holds that call's arguments and each call settles   *)
(* with the outcome of its own response and its own error context; a step  *)
(* of one call changes no other call, and a change of the region changes   *)
(* no call.                                                                *)
C17_CallsIndependent ==
    /\ [](\A c \in Slots :
            /\ calls[c].invoked = 1 => OwnRequest(calls[c])
            /\ (calls[c].invoked = 1 /\ calls[c].st = "settled") => OwnOutcome(calls[c]))
    /\ [][/\ \A c \in Slots :
               calls'[c] # calls[c] => \A d \in Slots \ {c} : calls'[d] = calls[d]
           /\ region' # region => calls' = calls]_vars

\* a call was rejected by its callback while another operation's call was still in flight
C17_Witness ==
    \E c \in Slots, d \in Slots :
        /\ calls[c].st = "settled" /\ calls[c].invoked = 1
        /\ calls[c].out.settled = "rejected"
        /\ calls[d].st \in {"pending", "responded"}
        /\ calls[d].op # calls[c].op
        /\ c < d

====
